---- MODULE Spec2Model ----
(***************************************************************************)
(* Model of the PMTiles Lambda handler (src/index.mjs): path routing,      *)
(* the shared header cache used by every reader, conditional range reads   *)
(* against S3 and the shaping of the proxy response.                       *)
(*                                                                         *)
(* A path is a sequence of one-character strings, so that the two regular  *)
(* expressions of the router are matched character by character.           *)
(***************************************************************************)
EXTENDS Integers, Sequences, FiniteSets, TLC

\* ------------------------------------------------------------------------
\* Bounds of the model
\* ------------------------------------------------------------------------

\* number of handler invocations that may be in progress together
NReq == 2
\* the stored object of an archive is replaced at most MaxVersion - 1 times
MaxVersion == 2

\* ------------------------------------------------------------------------
\* Character classes of TILE_PATH_RE / TILEJSON_PATH_RE
\* ------------------------------------------------------------------------

Digits == {"0", "1", "2", "3", "4", "5", "6", "7", "8", "9"}

Lower == {"a", "b", "c", "d", "e", "f", "g", "h", "i", "j", "k", "l", "m",
          "n", "o", "p", "q", "r", "s", "t", "u", "v", "w", "x", "y", "z"}

Upper == {"A", "B", "C", "D", "E", "F", "G", "H", "I", "J", "K", "L", "M",
          "N", "O", "P", "Q", "R", "S", "T", "U", "V", "W", "X", "Y", "Z"}

\* [0-9a-zA-Z\/!\-_\.\*'()]
NameChars == Digits \cup Lower \cup Upper \cup
             {"/", "!", "-", "_", ".", "*", "'", "(", ")"}

\* p[i..j] (1-based, inclusive); empty when j < i
Slice(p, i, j) == [k \in 1..(j - i + 1) |-> p[i + k - 1]]

AllIn(p, i, j, class) == \A k \in i..j : p[k] \in class

\* End of the greedy run of characters of class that starts at i
\* (i - 1 when p[i] is not in class): what X+ consumes before a character
\* that is not in X.
RECURSIVE RunEnd(_, _, _)
RunEnd(p, i, class) ==
    IF i <= Len(p) /\ p[i] \in class THEN RunEnd(p, i + 1, class) ELSE i - 1

\* the value of one decimal digit
DigitValue(c) ==
    CASE c = "0" -> 0 [] c = "1" -> 1 [] c = "2" -> 2 [] c = "3" -> 3
      [] c = "4" -> 4 [] c = "5" -> 5 [] c = "6" -> 6 [] c = "7" -> 7
      [] c = "8" -> 8 [] c = "9" -> 9

DigitChar(v) ==
    CASE v = 0 -> "0" [] v = 1 -> "1" [] v = 2 -> "2" [] v = 3 -> "3"
      [] v = 4 -> "4" [] v = 5 -> "5" [] v = 6 -> "6" [] v = 7 -> "7"
      [] v = 8 -> "8" [] v = 9 -> "9"

\* the value of a digit string that is short enough for the integers of the
\* model
RECURSIVE DecimalValue(_)
DecimalValue(ds) ==
    IF ds = <<>> THEN 0
    ELSE 10 * DecimalValue(SubSeq(ds, 1, Len(ds) - 1))
         + DigitValue(ds[Len(ds)])

\* a digit string without its leading zeros
RECURSIVE StripZeros(_)
StripZeros(ds) ==
    IF Len(ds) > 1 /\ ds[1] = "0" THEN StripZeros(Tail(ds)) ELSE ds

\* a < b, for digit strings without leading zeros
RECURSIVE DigitsLess(_, _)
DigitsLess(a, b) ==
    IF Len(a) # Len(b) THEN Len(a) < Len(b)
    ELSE IF a = <<>> THEN FALSE
    ELSE IF a[1] # b[1] THEN DigitValue(a[1]) < DigitValue(b[1])
    ELSE DigitsLess(Tail(a), Tail(b))

\* ds + 1
RECURSIVE Increment(_)
Increment(ds) ==
    IF ds = <<>> THEN <<"1">>
    ELSE IF ds[Len(ds)] = "9"
    THEN Increment(SubSeq(ds, 1, Len(ds) - 1)) \o <<"0">>
    ELSE SubSeq(ds, 1, Len(ds) - 1)
         \o <<DigitChar(DigitValue(ds[Len(ds)]) + 1)>>

\* 2^53 = 9007199254740992: up to it every integer is a double
TwoTo53 == <<"9", "0", "0", "7", "1", "9", "9", "2", "5", "4", "7", "4", "0",
             "9", "9", "2">>

\* The double nearest to the integer c (without leading zeros, of at most 16
\* digits, so below 2^54).  Between 2^53 and 2^54 the doubles are the even
\* integers, and an odd integer, half way between two of them, goes to the
\* one with the even significand: the multiple of 4.
RoundToDouble(c) ==
    IF ~DigitsLess(TwoTo53, c) THEN c
    ELSE LET m == DecimalValue(SubSeq(c, Len(c) - 1, Len(c))) % 4
         IN  CASE m = 1 -> SubSeq(c, 1, Len(c) - 1)
                           \o <<DigitChar(DigitValue(c[Len(c)]) - 1)>>
               [] m = 3 -> Increment(c)
               [] OTHER -> c

\* Number("...") of a string of decimal digits: a double.  A value of at
\* most nine digits is an integer of the model; a larger one is kept as the
\* decimal digits of the double.  Strings of more than 16 digits are not
\* among the inputs.
Number(ds) ==
    LET c == StripZeros(ds)
    IN  IF Len(c) <= 9 THEN DecimalValue(c)
        ELSE [double |-> RoundToDouble(c)]

\* TileTail with the dot before the extension left unescaped, so that it
\* matches any one character
TileTailAnyDot(p, k) ==
    LET n  == Len(p)
        ze == RunEnd(p, k + 1, Digits)
        xe == RunEnd(p, ze + 2, Digits)
        ye == RunEnd(p, xe + 2, Digits)
        ee == RunEnd(p, ye + 2, Lower)
    IN  IF /\ k <= n /\ p[k] = "/" /\ ze >= k + 1
           /\ ze + 1 <= n /\ p[ze + 1] = "/" /\ xe >= ze + 2
           /\ xe + 1 <= n /\ p[xe + 1] = "/" /\ ye >= xe + 2
           /\ ye + 1 <= n /\ ee >= ye + 2
           /\ ee = n
        THEN <<ze, xe, ye, ee>>
        ELSE <<>>

\* The part of TILE_PATH_RE after the name group, matched from position k:
\*   \/(\d+)\/(\d+)\/(\d+)\.([a-z]+)$
\* Each run is followed by a character outside its class, so the greedy run
\* is the only one that can match.  The result is the four group ends, or
\* <<>> when there is no match.
TileTail(p, k) ==
    LET n  == Len(p)
        ze == RunEnd(p, k + 1, Digits)
        xe == RunEnd(p, ze + 2, Digits)
        ye == RunEnd(p, xe + 2, Digits)
        ee == RunEnd(p, ye + 2, Lower)
    IN  IF /\ k <= n /\ p[k] = "/" /\ ze >= k + 1
           /\ ze + 1 <= n /\ p[ze + 1] = "/" /\ xe >= ze + 2
           /\ xe + 1 <= n /\ p[xe + 1] = "/" /\ ye >= xe + 2
           /\ ye + 1 <= n /\ p[ye + 1] = "." /\ ee >= ye + 2
           /\ ee = n
        THEN <<ze, xe, ye, ee>>
        ELSE <<>>

\* path.match(TILE_PATH_RE): the name group is greedy, so of the name ends
\* that let the rest match the engine reports the longest.
TileMatch(p) ==
    LET ends == {e \in 2..Len(p) :
                    /\ p[1] = "/"
                    /\ AllIn(p, 2, e, NameChars)
                    /\ TileTail(p, e + 1) # <<>>}
    IN  IF ends = {} THEN <<>>
        ELSE LET e == CHOOSE m \in ends : \A o \in ends : o <= m
                 t == TileTail(p, e + 1)
             IN  <<e, t[1], t[2], t[3], t[4]>>

\* path.match(TILEJSON_PATH_RE):  ^\/(name+)\.json$
JsonMatch(p) ==
    LET n == Len(p)
    IN  /\ n >= 7
        /\ p[1] = "/"
        /\ AllIn(p, 2, n - 5, NameChars)
        /\ Slice(p, n - 4, n) = <<".", "j", "s", "o", "n">>

NoIntent == [type |-> "null"]

\* parsePath trying TILEJSON_PATH_RE before TILE_PATH_RE
parsePathJsonFirst(path) ==
    LET t == TileMatch(path)
    IN  IF JsonMatch(path)
        THEN [type |-> "tilejson", name |-> Slice(path, 2, Len(path) - 5)]
        ELSE IF t # <<>>
        THEN [type |-> "tile",
              name |-> Slice(path, 2, t[1]),
              z    |-> Number(Slice(path, t[1] + 2, t[2])),
              x    |-> Number(Slice(path, t[2] + 2, t[3])),
              y    |-> Number(Slice(path, t[3] + 2, t[4])),
              ext  |-> Slice(path, t[4] + 2, t[5])]
        ELSE NoIntent

parsePath(path) ==
    LET t == TileMatch(path)
    IN  IF t # <<>>
        THEN [type |-> "tile",
              name |-> Slice(path, 2, t[1]),
              z    |-> Number(Slice(path, t[1] + 2, t[2])),
              x    |-> Number(Slice(path, t[2] + 2, t[3])),
              y    |-> Number(Slice(path, t[3] + 2, t[4])),
              ext  |-> Slice(path, t[4] + 2, t[5])]
        ELSE IF JsonMatch(path)
        THEN [type |-> "tilejson", name |-> Slice(path, 2, Len(path) - 5)]
        ELSE NoIntent

\* ------------------------------------------------------------------------
\* Static tables and small helpers
\* ------------------------------------------------------------------------

\* tileTypeToInfo with a made-up extension in its default branch
tileTypeToInfoDefaultBin(tileType) ==
    CASE tileType = 1 -> [ext |-> <<".", "m", "v", "t">>,
                          contentType |-> "application/vnd.mapbox-vector-tile"]
      [] tileType = 2 -> [ext |-> <<".", "p", "n", "g">>,
                          contentType |-> "image/png"]
      [] tileType = 3 -> [ext |-> <<".", "j", "p", "g">>,
                          contentType |-> "image/jpeg"]
      [] tileType = 4 -> [ext |-> <<".", "w", "e", "b", "p">>,
                          contentType |-> "image/webp"]
      [] tileType = 5 -> [ext |-> <<".", "a", "v", "i", "f">>,
                          contentType |-> "image/avif"]
      [] OTHER        -> [ext |-> <<".", "b", "i", "n">>,
                          contentType |-> "application/octet-stream"]

\* Map PMTiles tileType enum to extension + content-type; the default branch
\* returns the empty (falsy) extension.
tileTypeToInfo(tileType) ==
    CASE tileType = 1 -> [ext |-> <<".", "m", "v", "t">>,
                          contentType |-> "application/vnd.mapbox-vector-tile"]
      [] tileType = 2 -> [ext |-> <<".", "p", "n", "g">>,
                          contentType |-> "image/png"]
      [] tileType = 3 -> [ext |-> <<".", "j", "p", "g">>,
                          contentType |-> "image/jpeg"]
      [] tileType = 4 -> [ext |-> <<".", "w", "e", "b", "p">>,
                          contentType |-> "image/webp"]
      [] tileType = 5 -> [ext |-> <<".", "a", "v", "i", "f">>,
                          contentType |-> "image/avif"]
      [] OTHER        -> [ext |-> <<>>,
                          contentType |-> "application/octet-stream"]

\* the zoom check without its lower half
zoomOutOfRangeAboveOnly(z, header) == z > header.maxZoom

\* the zoom check without its upper half
zoomOutOfRangeBelowOnly(z, header) == z < header.minZoom

\* z < header.minZoom || z > header.maxZoom
zoomOutOfRange(z, header) == z < header.minZoom \/ z > header.maxZoom

\* the extension validation comparing against an empty archiveExt as well
extensionRejectedStrict(tileType, ext) ==
    LET archiveExt == tileTypeToInfo(tileType).ext
    IN  IF tileType = 1 /\ ext = <<"p", "b", "f">>
        THEN FALSE
        ELSE (<<".">> \o ext) # archiveExt

\* the extension validation letting ".pbf" through for every tile type
extensionRejectedAliasAll(tileType, ext) ==
    LET archiveExt == tileTypeToInfo(tileType).ext
    IN  IF ext = <<"p", "b", "f">>
        THEN FALSE
        ELSE archiveExt # <<>> /\ (<<".">> \o ext) # archiveExt

\* the extension validation without the ".pbf" special case
extensionRejectedNoAlias(tileType, ext) ==
    LET archiveExt == tileTypeToInfo(tileType).ext
    IN  archiveExt # <<>> /\ (<<".">> \o ext) # archiveExt

\* The extension validation of the handler: TRUE when the request is turned
\* away with 400.  ".pbf" is let through for tileType 1; an empty archiveExt
\* is falsy and disables the comparison.
extensionRejected(tileType, ext) ==
    LET archiveExt == tileTypeToInfo(tileType).ext
    IN  IF tileType = 1 /\ ext = <<"p", "b", "f">>
        THEN FALSE
        ELSE archiveExt # <<>> /\ (<<".">> \o ext) # archiveExt

\* crypto.createHash("sha256").update(bytes).digest("hex"), in quotes.  The
\* digest is kept symbolic: equal inputs give equal digests and the model
\* assumes no collision between the few byte strings it stores.
sha256Hex(bytes) == [alg |-> "sha256", of |-> bytes]

\* zlib.gzipSync
gzipSync(bytes) == [gzip |-> TRUE, data |-> bytes]
\* Buffer left as it is
plain(bytes) == [gzip |-> FALSE, data |-> bytes]

Text(s) == [kind |-> "text", text |-> s]

\* ------------------------------------------------------------------------
\* Inputs: archives in the bucket, process environments, events
\* ------------------------------------------------------------------------

NameA == <<"a">>
NameB == <<"b", "/", "1">>
ArchiveNames == {NameA, NameB}

\* tile types the stored archives declare: 1 vector, 2 PNG, 0 unknown
TileTypeInputs == {0, 1, 2}

\* One stored object.  etag is the identity S3 reports for it; every
\* replacement of the object gets a new one.  Zoom 1 is the only zoom level
\* and tile (1, 0, 0) the only tile in the index.
Object(t, v) ==
    [etag |-> v, tileType |-> t, minZoom |-> 1, maxZoom |-> 1,
     bounds |-> <<-10, -20, 10, 20>>, center |-> <<0, 0, 1>>,
     tiles |-> {<<1, 0, 0>>}]

\* the bytes of a tile of an object
TileData(obj, z, x, y) == <<obj.etag, z, x, y>>

\* the JSON metadata block of an object
MetadataOf(obj) ==
    [name |-> "tiles", description |-> "demo", attribution |-> "osm",
     version |-> obj.etag, vector_layers |-> <<"roads">>]

\* the object {}: every field read from it is undefined
EmptyMetadata ==
    [name |-> "undefined", description |-> "undefined",
     attribution |-> "undefined", version |-> 0, vector_layers |-> <<>>]

\* process.env; "" is an unset variable
BucketOnly ==
    [BUCKET |-> "bucket", PUBLIC_HOSTNAME |-> "", CORS |-> "",
     CACHE_CONTROL |-> ""]

EnvInputs ==
    {BucketOnly,
     [BUCKET |-> "bucket", PUBLIC_HOSTNAME |-> "tiles.example.com",
      CORS |-> "*", CACHE_CONTROL |-> "no-cache"],
     [BUCKET |-> "", PUBLIC_HOSTNAME |-> "", CORS |-> "",
      CACHE_CONTROL |-> ""]}

TilePath(name, z, x, y, ext) ==
    <<"/">> \o name \o <<"/">> \o z \o <<"/">> \o x \o <<"/">> \o y
            \o <<".">> \o ext

JsonPath(name) == <<"/">> \o name \o <<".", "j", "s", "o", "n">>

ExtInputs == {<<"m", "v", "t">>, <<"p", "b", "f">>, <<"p", "n", "g">>}

TilePathInputs ==
    {TilePath(n, z, <<"0">>, y, e) :
        n \in ArchiveNames, z \in {<<"0">>, <<"1">>, <<"2">>},
        y \in {<<"0">>, <<"1">>}, e \in ExtInputs}

JsonPathInputs == {JsonPath(n) : n \in ArchiveNames}

\* paths of neither grammar
BadPathInputs ==
    {<<"/">>,
     <<"/", "a">>,
     <<"/", "a", "/", "1", "/", "0", "/", "0">>,
     <<"/", "a", "/", "1", "/", "0", "/", "0", "_", "m", "v", "t">>,
     <<"/", "a", "/", "1", "/", "0", "/", "0", ".", "M", "V", "T">>,
     <<"/", "a", "/", "1", "/", "x", "/", "0", ".", "m", "v", "t">>,
     <<"/", "a", "~", ".", "j", "s", "o", "n">>,
     <<"a", ".", "j", "s", "o", "n">>}

PathInputs == TilePathInputs \cup JsonPathInputs \cup BadPathInputs

\* names, numbers and extensions of the paths given to parsePath on its own:
\* names with slashes, dots and digit segments; numbers with leading zeros,
\* of ten digits, and around 2^53; the extension json
ParseNames ==
    {NameA, NameB,
     <<"t", ".", "2", "/", "3", "/", "4">>,
     <<"(", "x", ")", "/", "0", "/", "0", "/", "0", ".", "p", "n", "g">>}

ZInputs ==
    {<<"0">>, <<"1", "2">>, <<"0", "0", "7">>,
     <<"4", "2", "9", "4", "9", "6", "7", "2", "9", "6">>,
     TwoTo53,
     <<"9", "0", "0", "7", "1", "9", "9", "2", "5", "4", "7", "4", "0", "9",
       "9", "3">>}

XInputs ==
    {<<"0">>, <<"3">>,
     <<"9", "0", "0", "7", "1", "9", "9", "2", "5", "4", "7", "4", "0", "9",
       "9", "9">>}

YInputs ==
    {<<"0">>, <<"5">>,
     <<"9", "0", "0", "7", "1", "9", "9", "2", "5", "4", "7", "4", "0", "9",
       "9", "4">>}

ParseExts == {<<"m", "v", "t">>, <<"p", "b", "f">>, <<"j", "s", "o", "n">>,
              <<"z">>}

ParseInputs ==
    {TilePath(n, z, x, y, e) :
        n \in ParseNames, z \in ZInputs, x \in XInputs, y \in YInputs,
        e \in ParseExts}
    \cup {JsonPath(n) : n \in ParseNames}

\* A Lambda event: pathParameters.proxy (API Gateway), rawPath (Function
\* URL), whether the x-distribution-domain-name header is present, and the
\* Accept-Encoding header.  <<>> and "" are absent (or empty, equally falsy)
\* strings.
RawEvent(p, hint) ==
    [proxy |-> <<>>, rawPath |-> p, hint |-> hint, accept |-> ""]
GatewayEvent(p, hint) ==
    [proxy |-> Tail(p), rawPath |-> <<>>, hint |-> hint, accept |-> ""]

\* the same event from a client that sends Accept-Encoding: gzip
AcceptingGzip(e) == [e EXCEPT !.accept = "gzip"]

EventInputs ==
    {RawEvent(p, FALSE) : p \in PathInputs}
    \cup {GatewayEvent(p, FALSE) :
            p \in {q \in PathInputs : Len(q) > 1 /\ q[1] = "/"}}
    \cup {RawEvent(p, TRUE) : p \in JsonPathInputs}
    \cup {AcceptingGzip(RawEvent(TilePath(n, <<"1">>, <<"0">>, <<"0">>, e),
                                 FALSE)) :
            n \in ArchiveNames, e \in ExtInputs}
    \cup {[proxy |-> <<>>, rawPath |-> <<>>, hint |-> FALSE, accept |-> ""]}

\* the few events of the traffic that runs several invocations together
MixedEvents ==
    {RawEvent(TilePath(NameA, <<"1">>, <<"0">>, <<"0">>, <<"m", "v", "t">>),
              FALSE),
     RawEvent(TilePath(NameA, <<"1">>, <<"0">>, <<"0">>, <<"p", "b", "f">>),
              FALSE),
     GatewayEvent(TilePath(NameA, <<"1">>, <<"0">>, <<"0">>,
                           <<"m", "v", "t">>), FALSE),
     RawEvent(JsonPath(NameA), TRUE),
     RawEvent(JsonPath(NameB), TRUE)}

\* one event for each way in which the handler can end
ServeEvents ==
    {[proxy |-> <<>>, rawPath |-> <<>>, hint |-> FALSE, accept |-> ""],
     RawEvent(<<"/", "a">>, FALSE),
     RawEvent(TilePath(NameA, <<"0">>, <<"0">>, <<"0">>, <<"m", "v", "t">>),
              FALSE),
     RawEvent(TilePath(NameA, <<"1">>, <<"0">>, <<"0">>, <<"p", "n", "g">>),
              FALSE),
     RawEvent(TilePath(NameA, <<"1">>, <<"0">>, <<"1">>, <<"m", "v", "t">>),
              FALSE),
     GatewayEvent(TilePath(NameA, <<"1">>, <<"0">>, <<"0">>,
                           <<"m", "v", "t">>), FALSE),
     RawEvent(TilePath(NameB, <<"1">>, <<"0">>, <<"0">>, <<"p", "n", "g">>),
              FALSE),
     RawEvent(JsonPath(NameA), FALSE),
     RawEvent(JsonPath(NameB), TRUE)}

\* the events an invocation may be given, by the traffic it belongs to
EventsOf(kind) ==
    CASE kind = "any" -> EventInputs
      [] kind = "mixed" -> MixedEvents
      [] kind = "serve" -> ServeEvents
      [] OTHER -> {}

\* ------------------------------------------------------------------------
\* State
\* ------------------------------------------------------------------------

Reqs == 1..NReq

\* cache 0 is pmtilesCache, the module-level SharedPromiseCache
CacheIds == 0..NReq

VARIABLES
    feed,         \* the traffic each invocation slot takes its event from
    env,          \* process.env of this Lambda container
    store,        \* the bucket: the object stored for each archive name
    cache,        \* header promises of each SharedPromiseCache, by source key
    pc,           \* where each handler invocation stands
    event,        \* the event each invocation was given
    parsed,       \* const parsed = parsePath(path)
    gateway,      \* cameFromApiGateway
    archive,      \* the PMTiles instance getArchive returned
    header,       \* const header = await archive.getHeader()
    attempt,      \* getZxy attempts made by the reader
    response,     \* what the invocation returned
    readers,      \* number of PMTiles instances constructed so far
    fetches,      \* header fetch sequences started so far, per archive name
    sends,        \* GetObject commands sent on behalf of each invocation
    zxyCalls,     \* archive.getZxy calls made by each invocation
    reading,      \* the header the reader works from in its pending read
    outcome,      \* how the last reader operation of each invocation ended
    used          \* etags of the objects whose bytes each response is built from

vars == <<feed, env, store, cache, pc, event, parsed, gateway, archive, header,
          attempt, response, readers, fetches, sends, zxyCalls, reading,
          outcome, used>>

NoEvent == [proxy |-> <<>>, rawPath |-> <<>>, hint |-> FALSE, accept |-> ""]
NoArchive == [id |-> 0, source |-> <<>>, cache |-> 0]
NoHeader == [etag |-> 0, tileType |-> 0, minZoom |-> 0, maxZoom |-> 0,
             bounds |-> <<>>, center |-> <<>>, tiles |-> {}]
NoResponse == [statusCode |-> 0]

NoOutcome == [op |-> "none", result |-> "none", etag |-> 0]

EmptyEntry == [st |-> "none", header |-> NoHeader, err |-> "none"]
PendingEntry == [st |-> "pending", header |-> NoHeader, err |-> "none"]

\* everything but the traffic, the events and the content of the bucket
InitProcess ==
    /\ cache = [c \in CacheIds |-> [n \in ArchiveNames |-> EmptyEntry]]
    /\ pc = [r \in Reqs |-> "idle"]
    /\ parsed = [r \in Reqs |-> NoIntent]
    /\ gateway = [r \in Reqs |-> FALSE]
    /\ archive = [r \in Reqs |-> NoArchive]
    /\ header = [r \in Reqs |-> NoHeader]
    /\ attempt = [r \in Reqs |-> 0]
    /\ response = [r \in Reqs |-> NoResponse]
    /\ readers = 0
    /\ fetches = [n \in ArchiveNames |-> 0]
    /\ sends = [r \in Reqs |-> 0]
    /\ zxyCalls = [r \in Reqs |-> 0]
    /\ reading = [r \in Reqs |-> NoHeader]
    /\ outcome = [r \in Reqs |-> NoOutcome]
    /\ used = [r \in Reqs |-> {}]

\* Concurrent invocations over a vector archive and a PNG archive.
Init ==
    /\ feed = [r \in Reqs |-> "mixed"]
    /\ store = [n \in ArchiveNames |->
                  IF n = NameA THEN Object(1, 1) ELSE Object(2, 1)]
    /\ env = BucketOnly
    /\ event = [r \in Reqs |-> NoEvent]
    /\ InitProcess

\* One invocation given any event, over archives of any of the tile types.
InitRoute ==
    /\ feed = [r \in Reqs |-> IF r = 1 THEN "any" ELSE "none"]
    /\ store \in [ArchiveNames -> {Object(t, 1) : t \in TileTypeInputs}]
    /\ env \in EnvInputs
    /\ event = [r \in Reqs |-> NoEvent]
    /\ InitProcess

\* An invocation that ends in any of the ways the handler can end, running
\* together with an invocation of the mixed traffic.
InitServe ==
    /\ feed = [r \in Reqs |-> CASE r = 1 -> "serve"
                                 [] r = 2 -> "mixed"
                                 [] OTHER -> "none"]
    /\ store = [n \in ArchiveNames |->
                  IF n = NameA THEN Object(1, 1) ELSE Object(2, 1)]
    /\ env = BucketOnly
    /\ event = [r \in Reqs |-> NoEvent]
    /\ InitProcess

\* parsePath on its own: one invocation that is handed a path and parses it
InitParse ==
    /\ feed = [r \in Reqs |-> IF r = 1 THEN "parse" ELSE "none"]
    /\ store = [n \in ArchiveNames |->
                  IF n = NameA THEN Object(1, 1) ELSE Object(2, 1)]
    /\ env = BucketOnly
    /\ \E p \in ParseInputs :
        event = [r \in Reqs |-> IF r = 1 THEN RawEvent(p, FALSE)
                                ELSE NoEvent]
    /\ InitProcess

\* ------------------------------------------------------------------------
\* S3 and the source
\* ------------------------------------------------------------------------

\* The ways a GetObject command can go wrong whatever it asks for: the three
\* named errors, and a response that carries no body.  The traffic of
\* several invocations is given two of them.
S3Faults ==
    IF feed[1] = "any"
    THEN {"AccessDenied", "NoSuchKey", "TimeoutError", "NoBody"}
    ELSE {"AccessDenied", "TimeoutError"}

Fault(name) == [ok |-> FALSE, name |-> name, obj |-> Object(0, 0)]

\* s3.send(new GetObjectCommand(params)): the ways it can end.  ifMatch = 0
\* is a command without IfMatch.  S3 refuses a conditional read of an object
\* whose ETag is not the expected one.
s3Send(name, ifMatch) ==
    {Fault(f) : f \in S3Faults}
    \cup (IF ifMatch # 0 /\ ifMatch # store[name].etag
          THEN {Fault("PreconditionFailed")}
          ELSE {[ok |-> TRUE, name |-> "none", obj |-> store[name]]})

\* what getBytes makes of the end of s3.send: errors are rethrown as they
\* are, a response without a body is an Error
Rethrown(res) == IF res.name = "NoBody" THEN Fault("Error") ELSE res

\* S3PmtilesSource.getBytes sending no IfMatch
getBytesUnconditional(name, etag) ==
    IF env.BUCKET = ""
    THEN {Fault("Error")}
    ELSE {Rethrown(res) : res \in s3Send(name, 0)}

\* S3PmtilesSource.getBytes(offset, length, signal, etag): the ways it can
\* end.  etag = 0 is an undefined etag, for which no IfMatch is sent.
getBytes(name, etag) ==
    IF env.BUCKET = ""
    THEN {Fault("Error")}
    ELSE {Rethrown(res) : res \in s3Send(name, IF etag # 0 THEN etag ELSE 0)}

\* whether a getBytes call gets as far as s3.send
Sent == IF env.BUCKET = "" THEN 0 ELSE 1

\* The error type on which the reader retries with a fresh header.  The
\* errors getBytes rethrows carry the names S3 gave them.
isEtagMismatch(errName) == errName = "EtagMismatch"

\* getArchive with a cache of its own for every reader
getArchiveOwnCache(name, id) ==
    [id |-> id, source |-> name, cache |-> id]

\* getArchive(name): a new source and a new PMTiles over pmtilesCache.  id is
\* the identity of the new PMTiles object.
getArchive(name, id) ==
    [id |-> id, source |-> name, cache |-> 0]

\* ------------------------------------------------------------------------
\* Responses
\* ------------------------------------------------------------------------

EmptyHeaders == [h \in {} |-> ""]

\* Basic Lambda proxy response builder
makeResponse(statusCode, body, headers, isBase64Encoded) ==
    [statusCode |-> statusCode,
     body |-> body,
     headers |-> IF env.CORS # ""
                 THEN ("Access-Control-Allow-Origin" :> env.CORS) @@ headers
                 ELSE headers,
     isBase64Encoded |-> isBase64Encoded]

\* the catch block answering 502 where the handler answers 500
catchResponseBadGateway(errName) ==
    IF errName = "AccessDenied"
    THEN makeResponse(403, Text("Bucket access unauthorized"), EmptyHeaders,
                      FALSE)
    ELSE makeResponse(502, Text("Bad gateway"), EmptyHeaders, FALSE)

\* the catch block without the test of err.name
catchResponseAll500(errName) ==
    makeResponse(500, Text("Internal server error"), EmptyHeaders, FALSE)

\* the catch block of the handler
catchResponse(errName) ==
    IF errName = "AccessDenied"
    THEN makeResponse(403, Text("Bucket access unauthorized"), EmptyHeaders,
                      FALSE)
    ELSE makeResponse(500, Text("Internal server error"), EmptyHeaders, FALSE)

\* the handler with the test of tileResult left out: Buffer.from of an
\* undefined result throws, and the catch block answers
tileResponseUnchecked(tileResult, contentType, gw) ==
    IF ~tileResult.found
    THEN catchResponse("TypeError")
    ELSE makeResponse(200,
            [kind |-> "base64", payload |-> plain(tileResult.data)],
            ("Content-Type" :> contentType), TRUE)

\* the handler computing the ETag after the gzip step, of the bytes it
\* sends: a gzip stream begins with the bytes 1f 8b
tileResponseEtagOfBody(tileResult, contentType, gw) ==
    IF ~tileResult.found
    THEN makeResponse(204, Text(""), EmptyHeaders, FALSE)
    ELSE LET tileBytes == tileResult.data
             sent == IF gw THEN <<31, 139>> \o tileBytes ELSE tileBytes
             headers ==
                ("Content-Type" :> contentType)
                @@ ("Cache-Control" :>
                      IF env.CACHE_CONTROL # "" THEN env.CACHE_CONTROL
                      ELSE "public, max-age=86400")
                @@ ("ETag" :> sha256Hex(sent))
         IN  makeResponse(200,
                [kind |-> "base64",
                 payload |-> IF gw THEN gzipSync(tileBytes)
                             ELSE plain(tileBytes)],
                IF gw THEN ("Content-Encoding" :> "gzip") @@ headers
                ELSE headers,
                TRUE)

\* The handler from the result of getZxy on: 204 for no tile; else the
\* sha256 ETag, the headers, gzip for API Gateway, base64.
tileResponse(tileResult, contentType, gw) ==
    IF ~tileResult.found
    THEN makeResponse(204, Text(""), EmptyHeaders, FALSE)
    ELSE LET tileBytes == tileResult.data
             headers ==
                ("Content-Type" :> contentType)
                @@ ("Cache-Control" :>
                      IF env.CACHE_CONTROL # "" THEN env.CACHE_CONTROL
                      ELSE "public, max-age=86400")
                @@ ("ETag" :> sha256Hex(tileBytes))
         IN  makeResponse(200,
                [kind |-> "base64",
                 payload |-> IF gw THEN gzipSync(tileBytes)
                             ELSE plain(tileBytes)],
                IF gw THEN ("Content-Encoding" :> "gzip") @@ headers
                ELSE headers,
                TRUE)

\* event.headers["x-distribution-domain-name"]
cfDomain(e) == IF e.hint THEN "d111.cloudfront.net" ELSE ""

\* the host with a made-up name to fall back on
hostOfDefault(e) ==
    IF env.PUBLIC_HOSTNAME # "" THEN env.PUBLIC_HOSTNAME
    ELSE IF cfDomain(e) # "" THEN cfDomain(e)
    ELSE "localhost"

\* process.env.PUBLIC_HOSTNAME || cfDomain
hostOf(e) == IF env.PUBLIC_HOSTNAME # "" THEN env.PUBLIC_HOSTNAME
             ELSE cfDomain(e)

\* The object buildTileJson returns, once a host is known, as
\* JSON.stringify writes it: a field read from an empty metadata object is
\* undefined and left out, which the marker "undefined" stands for.  tiles
\* stands for the one URL template https://<host>/<name>/{z}/{x}/{y}<ext>.
tileJson(name, hdr, metadata, host) ==
    [kind |-> "json",
     tilejson |-> "3.0.0",
     scheme |-> "xyz",
     tiles |-> [host |-> host, name |-> name,
                ext |-> tileTypeToInfo(hdr.tileType).ext],
     vector_layers |-> metadata.vector_layers,
     attribution |-> metadata.attribution,
     description |-> metadata.description,
     name |-> metadata.name,
     version |-> metadata.version,
     bounds |-> hdr.bounds,
     center |-> hdr.center,
     minzoom |-> hdr.minZoom,
     maxzoom |-> hdr.maxZoom]

\* The handler's use of buildTileJson after the metadata read ended:
\* a missing host throws, and the catch block answers.
tileJsonResponse(name, hdr, metadata, e) ==
    IF hostOf(e) = ""
    THEN catchResponse("Error")
    ELSE makeResponse(200, tileJson(name, hdr, metadata, hostOf(e)),
                      ("Content-Type" :> "application/json"), FALSE)

\* archive.getMetadata() without the catch: a failed read rejects
getMetadataNoCatch(o) ==
    IF o.ok
    THEN [ok |-> TRUE, name |-> "none", metadata |-> MetadataOf(o.obj)]
    ELSE [ok |-> FALSE, name |-> o.name, metadata |-> EmptyMetadata]

\* archive.getMetadata().catch(() => ({})) from the end o of the metadata
\* read on: a rejection of any kind is replaced by the object {}
getMetadataCatch(o) ==
    IF o.ok
    THEN [ok |-> TRUE, name |-> "none", metadata |-> MetadataOf(o.obj)]
    ELSE [ok |-> TRUE, name |-> "none", metadata |-> EmptyMetadata]

\* the path determination never setting cameFromApiGateway
requestPathNoFlag(e) ==
    IF e.proxy # <<>>
    THEN [found |-> TRUE, path |-> <<"/">> \o e.proxy, gateway |-> FALSE]
    ELSE IF e.rawPath # <<>>
    THEN [found |-> TRUE, path |-> e.rawPath, gateway |-> FALSE]
    ELSE [found |-> FALSE, path |-> <<>>, gateway |-> FALSE]

\* the path the handler routes, and whether it came from API Gateway
requestPath(e) ==
    IF e.proxy # <<>>
    THEN [found |-> TRUE, path |-> <<"/">> \o e.proxy, gateway |-> TRUE]
    ELSE IF e.rawPath # <<>>
    THEN [found |-> TRUE, path |-> e.rawPath, gateway |-> FALSE]
    ELSE [found |-> FALSE, path |-> <<>>, gateway |-> FALSE]

\* ------------------------------------------------------------------------
\* The reader over the shared cache
\* ------------------------------------------------------------------------

\* the header and root directory decoded from the first bytes of an object
decodeHeader(obj) ==
    [etag |-> obj.etag, tileType |-> obj.tileType, minZoom |-> obj.minZoom,
     maxZoom |-> obj.maxZoom, bounds |-> obj.bounds, center |-> obj.center,
     tiles |-> obj.tiles]

EntryOf(rd) == cache[rd.cache][rd.source]

\* SharedPromiseCache.getHeader(source) up to its await: a key without an
\* entry gets a pending promise and the header read is started; a key with an
\* entry, settled or not, starts nothing.
CallGetHeader(r, rd) ==
    LET miss == EntryOf(rd).st = "none"
    IN  /\ cache' = IF miss
                    THEN [cache EXCEPT ![rd.cache][rd.source] = PendingEntry]
                    ELSE cache
        /\ fetches' = IF miss
                      THEN [fetches EXCEPT ![rd.source] = @ + 1]
                      ELSE fetches
        /\ sends' = [sends EXCEPT ![r] = @ + (IF miss THEN Sent ELSE 0)]

\* ------------------------------------------------------------------------
\* Actions
\* ------------------------------------------------------------------------

Return(r, resp) ==
    /\ response' = [response EXCEPT ![r] = resp]
    /\ pc' = [pc EXCEPT ![r] = "done"]

\* The handler from its entry to its first await: no path is 500, a path of
\* neither grammar is 400, else getArchive and the call of getHeader.
\* Invocations are numbered in the order in which they arrive.
Start(r) ==
    /\ pc[r] = "idle"
    /\ IF r = 1 THEN TRUE ELSE pc[r - 1] # "idle"
    /\ \E e \in EventsOf(feed[r]) :
        LET rp == requestPath(e)
            intent == parsePath(rp.path)
            rd == getArchive(intent.name, readers + 1)
        IN  /\ event' = [event EXCEPT ![r] = e]
            /\ gateway' = [gateway EXCEPT ![r] = rp.gateway]
            /\ IF ~rp.found
               THEN /\ Return(r, makeResponse(500,
                                 Text("Invalid event configuration"),
                                 EmptyHeaders, FALSE))
                    /\ UNCHANGED <<parsed, archive, readers, cache, fetches,
                                   sends>>
               ELSE IF intent.type = "null"
               THEN /\ parsed' = [parsed EXCEPT ![r] = intent]
                    /\ Return(r, makeResponse(400, Text("Invalid tile URL"),
                                              EmptyHeaders, FALSE))
                    /\ UNCHANGED <<archive, readers, cache, fetches, sends>>
               ELSE /\ parsed' = [parsed EXCEPT ![r] = intent]
                    /\ archive' = [archive EXCEPT ![r] = rd]
                    /\ readers' = readers + 1
                    /\ CallGetHeader(r, rd)
                    /\ pc' = [pc EXCEPT ![r] = "header"]
                    /\ UNCHANGED response
    /\ UNCHANGED <<feed, env, store, header, attempt, zxyCalls, reading,
                   outcome, used>>

\* The header read of a pending promise ends: the promise resolves with the
\* decoded header of the object S3 served, or rejects with the error of
\* getBytes.  A rejected promise stays in the cache like a resolved one.
HeaderSettle(c, n) ==
    /\ cache[c][n].st = "pending"
    /\ \E o \in getBytes(n, 0) :
        cache' = [cache EXCEPT ![c][n] =
                    IF o.ok
                    THEN [st |-> "ok", header |-> decodeHeader(o.obj),
                          err |-> "none"]
                    ELSE [st |-> "err", header |-> NoHeader, err |-> o.name]]
    /\ UNCHANGED <<feed, env, store, pc, event, parsed, gateway, archive, header,
                   attempt, response, readers, fetches, sends, zxyCalls,
                   reading, outcome, used>>

\* archive.getZxy(z, x, y) up to its read: the reader looks the tile up in
\* the directory that came with hdr and reads the tile's bytes on condition
\* of hdr.etag; a tile without an entry needs no read.
CallGetZxy(r, hdr) ==
    /\ reading' = [reading EXCEPT ![r] = hdr]
    /\ sends' = [sends EXCEPT ![r] = @ +
                    (IF <<parsed[r].z, parsed[r].x, parsed[r].y>> \in hdr.tiles
                     THEN Sent ELSE 0)]
    /\ pc' = [pc EXCEPT ![r] = "zxy"]

\* The promise an invocation awaits in getHeader is settled and the
\* invocation goes on to its next await or to its response.
HeaderResume(r) ==
    LET entry == EntryOf(archive[r])
        in == parsed[r]
    IN
    /\ pc[r] = "header"
    /\ entry.st \in {"ok", "err"}
    /\ IF entry.st = "err"
       THEN \* the rejection reaches the catch block
            /\ outcome' = [outcome EXCEPT ![r] =
                  [op |-> "getHeader", result |-> entry.err, etag |-> 0]]
            /\ Return(r, catchResponse(entry.err))
            /\ UNCHANGED <<header, attempt, sends, zxyCalls, reading, used>>
       ELSE IF attempt[r] = 2
       THEN \* the reader's second attempt of getZxy has its fresh header
            /\ CallGetZxy(r, entry.header)
            /\ UNCHANGED <<header, attempt, response, zxyCalls, outcome,
                           used>>
       ELSE IF in.type = "tilejson"
       THEN \* buildTileJson: getMetadata reads on condition of the etag
            /\ header' = [header EXCEPT ![r] = entry.header]
            /\ reading' = [reading EXCEPT ![r] = entry.header]
            /\ sends' = [sends EXCEPT ![r] = @ + Sent]
            /\ pc' = [pc EXCEPT ![r] = "meta"]
            /\ UNCHANGED <<attempt, response, zxyCalls, outcome, used>>
       ELSE IF zoomOutOfRange(in.z, entry.header)
       THEN /\ header' = [header EXCEPT ![r] = entry.header]
            /\ used' = [used EXCEPT ![r] = {entry.header.etag}]
            /\ Return(r, makeResponse(404, Text(""), EmptyHeaders, FALSE))
            /\ UNCHANGED <<attempt, sends, zxyCalls, reading, outcome>>
       ELSE IF extensionRejected(entry.header.tileType, in.ext)
       THEN /\ header' = [header EXCEPT ![r] = entry.header]
            /\ used' = [used EXCEPT ![r] = {entry.header.etag}]
            /\ Return(r, makeResponse(400,
                   [kind |-> "badExtension", requested |-> <<".">> \o in.ext,
                    actual |-> tileTypeToInfo(entry.header.tileType).ext],
                   EmptyHeaders, FALSE))
            /\ UNCHANGED <<attempt, sends, zxyCalls, reading, outcome>>
       ELSE /\ header' = [header EXCEPT ![r] = entry.header]
            /\ zxyCalls' = [zxyCalls EXCEPT ![r] = @ + 1]
            /\ attempt' = [attempt EXCEPT ![r] = 1]
            /\ CallGetZxy(r, entry.header)
            /\ UNCHANGED <<response, outcome, used>>
    /\ UNCHANGED <<feed, env, store, cache, event, parsed, gateway, archive,
                   readers, fetches>>

NoTile == [found |-> FALSE, data |-> <<>>]

\* The read of getZxy ends (or the tile has no entry and getZxy resolves to
\* undefined) and the handler runs to its response.  An error of the reader's
\* own mismatch type on the first attempt makes the reader drop the cached
\* header and start over; any other error reaches the catch block.
ZxySettle(r) ==
    LET in == parsed[r]
        rd == archive[r]
        hdr == reading[r]
        present == <<in.z, in.x, in.y>> \in hdr.tiles
        contentType == tileTypeToInfo(header[r].tileType).contentType
    IN
    /\ pc[r] = "zxy"
    /\ \E o \in (IF present THEN getBytes(in.name, hdr.etag)
                 ELSE {Fault("none")}) :
        IF ~present
        THEN /\ outcome' = [outcome EXCEPT ![r] =
                  [op |-> "getZxy", result |-> "absent", etag |-> hdr.etag]]
             /\ used' = [used EXCEPT ![r] = {header[r].etag, hdr.etag}]
             /\ Return(r, tileResponse(NoTile, contentType, gateway[r]))
             /\ UNCHANGED <<cache, fetches, sends, attempt>>
        ELSE IF o.ok
        THEN /\ outcome' = [outcome EXCEPT ![r] =
                  [op |-> "getZxy", result |-> "ok", etag |-> o.obj.etag]]
             /\ used' = [used EXCEPT ![r] =
                            {header[r].etag, hdr.etag, o.obj.etag}]
             /\ Return(r, tileResponse(
                    [found |-> TRUE,
                     data |-> TileData(o.obj, in.z, in.x, in.y)],
                    contentType, gateway[r]))
             /\ UNCHANGED <<cache, fetches, sends, attempt>>
        ELSE IF isEtagMismatch(o.name) /\ attempt[r] = 1
        THEN /\ outcome' = [outcome EXCEPT ![r] =
                  [op |-> "getZxy", result |-> o.name, etag |-> 0]]
             /\ attempt' = [attempt EXCEPT ![r] = 2]
             /\ cache' = [cache EXCEPT ![rd.cache][rd.source] = PendingEntry]
             /\ fetches' = [fetches EXCEPT ![rd.source] = @ + 1]
             /\ sends' = [sends EXCEPT ![r] = @ + Sent]
             /\ pc' = [pc EXCEPT ![r] = "header"]
             /\ UNCHANGED <<response, used>>
        ELSE /\ outcome' = [outcome EXCEPT ![r] =
                  [op |-> "getZxy", result |-> o.name, etag |-> 0]]
             /\ Return(r, catchResponse(o.name))
             /\ UNCHANGED <<cache, fetches, sends, attempt, used>>
    /\ UNCHANGED <<feed, env, store, event, parsed, gateway, archive, header,
                   readers, zxyCalls, reading>>

\* The read of getMetadata ends and buildTileJson runs to its end: a failed
\* read is caught and replaced by an empty metadata object.
MetaSettle(r) ==
    LET in == parsed[r]
    IN
    /\ pc[r] = "meta"
    /\ \E o \in getBytes(in.name, reading[r].etag) :
        LET m == getMetadataCatch(o)
        IN  /\ outcome' = [outcome EXCEPT ![r] =
                  [op |-> "getMetadata",
                   result |-> IF o.ok THEN "ok" ELSE o.name,
                   etag |-> o.obj.etag]]
            /\ used' = [used EXCEPT ![r] =
                  {header[r].etag} \cup (IF o.ok THEN {o.obj.etag} ELSE {})]
            /\ Return(r, IF m.ok
                          THEN tileJsonResponse(in.name, header[r],
                                                m.metadata, event[r])
                          ELSE catchResponse(m.name))
    /\ UNCHANGED <<feed, env, store, cache, event, parsed, gateway, archive, header,
                   attempt, readers, fetches, sends, zxyCalls, reading>>

\* The object of an archive is overwritten in the bucket.  An overwrite that
\* comes before the process first asks for the archive is not told apart from
\* the initial content, so only later ones are taken.
Replace(n) ==
    /\ store[n].etag < MaxVersion
    /\ \E c \in CacheIds : cache[c][n].st # "none"
    /\ store' = [store EXCEPT ![n] = Object(@.tileType, @.etag + 1)]
    /\ UNCHANGED <<feed, env, cache, pc, event, parsed, gateway, archive, header,
                   attempt, response, readers, fetches, sends, zxyCalls,
                   reading, outcome, used>>

\* const parsed = parsePath(path), for the path of the event at hand
Parse(r) ==
    /\ pc[r] = "idle"
    /\ feed[r] = "parse"
    /\ parsed' = [parsed EXCEPT ![r] = parsePath(requestPath(event[r]).path)]
    /\ pc' = [pc EXCEPT ![r] = "parsed"]
    /\ UNCHANGED <<feed, env, store, cache, event, gateway, archive, header,
                   attempt, response, readers, fetches, sends, zxyCalls,
                   reading, outcome, used>>

Next ==
    \/ \E r \in Reqs : Start(r)
    \/ \E c \in CacheIds, n \in ArchiveNames : HeaderSettle(c, n)
    \/ \E r \in Reqs : HeaderResume(r)
    \/ \E r \in Reqs : ZxySettle(r)
    \/ \E r \in Reqs : MetaSettle(r)
    \/ \E n \in ArchiveNames : Replace(n)

Spec == Init /\ [][Next]_vars

SpecRoute == InitRoute /\ [][Next]_vars

\* Every GetObject command ends (the client is built with a connection and
\* a socket timeout), and a settled promise resumes the code that awaits
\* it.  Nothing obliges an invocation to arrive or an object to be replaced.
Fairness ==
    /\ \A c \in CacheIds, n \in ArchiveNames : WF_vars(HeaderSettle(c, n))
    /\ \A r \in Reqs :
        /\ WF_vars(HeaderResume(r))
        /\ WF_vars(ZxySettle(r))
        /\ WF_vars(MetaSettle(r))

SpecServe == InitServe /\ [][Next]_vars /\ Fairness

NextParse == \E r \in Reqs : Parse(r)

SpecParse == InitParse /\ [][NextParse]_vars

\* ------------------------------------------------------------------------
\* Properties
\* ------------------------------------------------------------------------

\* the path an invocation routed
PathOf(r) == requestPath(event[r]).path

Routed(r) == pc[r] # "idle" /\ requestPath(event[r]).found

\* The tile grammar /<name>/<z>/<x>/<y>.<ext>, stated by the places of its
\* three inner slashes and its dot.
InTileGrammar(p) ==
    LET n == Len(p)
    IN  /\ n >= 10
        /\ p[1] = "/"
        /\ \E d \in 8..(n - 1) :
            /\ p[d] = "."
            /\ AllIn(p, d + 1, n, Lower)
            /\ \E c \in 6..(d - 2) :
                /\ p[c] = "/"
                /\ AllIn(p, c + 1, d - 1, Digits)
                /\ \E b \in 4..(c - 2) :
                    /\ p[b] = "/"
                    /\ AllIn(p, b + 1, c - 1, Digits)
                    /\ \E a \in 3..(b - 2) :
                        /\ p[a] = "/"
                        /\ AllIn(p, a + 1, b - 1, Digits)
                        /\ AllIn(p, 2, a - 1, NameChars)

\* The metadata grammar /<name>.json
InJsonGrammar(p) ==
    LET n == Len(p)
    IN  /\ n >= 7
        /\ p[1] = "/"
        /\ SubSeq(p, n - 4, n) = <<".", "j", "s", "o", "n">>
        /\ AllIn(p, 2, n - 5, NameChars)

InNoGrammar(p) == ~InTileGrammar(p) /\ ~InJsonGrammar(p)

\* C1: an invocation whose path is of neither grammar has answered 400, has
\* constructed no reader and has sent no GetObject command, in every state
\* from its start on.
C1_InvalidPathNoRead ==
    \A r \in Reqs :
        (Routed(r) /\ InNoGrammar(PathOf(r)))
            => /\ pc[r] = "done"
               /\ response[r].statusCode = 400
               /\ archive[r] = NoArchive
               /\ sends[r] = 0
               /\ zxyCalls[r] = 0

\* C1 witness: a path of neither grammar was answered, and the cache is
\* still empty
C1_Witness ==
    \E r \in Reqs :
        /\ Routed(r) /\ InNoGrammar(PathOf(r)) /\ Len(PathOf(r)) > 10
        /\ response[r].statusCode = 400
        /\ \A n \in ArchiveNames : fetches[n] = 0

Resolved(r) == archive[r] # NoArchive

\* C2: invocations that resolved the same archive name hold the same reader,
\* and one reader was constructed for the name.
C2_OneReaderPerName ==
    \A r1, r2 \in Reqs :
        (Resolved(r1) /\ Resolved(r2)
            /\ archive[r1].source = archive[r2].source)
            => archive[r1].id = archive[r2].id

\* how getHeader ended for an invocation that is past it
PastHeader(r) == Resolved(r) /\ pc[r] \in {"zxy", "meta", "done"}

HeaderOutcome(r) ==
    IF header[r] # NoHeader
    THEN [ok |-> TRUE, etag |-> header[r].etag, err |-> "none"]
    ELSE [ok |-> FALSE, etag |-> 0, err |-> outcome[r].result]

InFlight(n) == {c \in CacheIds : cache[c][n].st = "pending"}

\* C3: for each archive name at most one header fetch is in flight, no second
\* header fetch sequence is ever started, and the invocations for the name
\* that are past getHeader all got the same header or the same error.
C3_OneFetchPerName ==
    /\ \A n \in ArchiveNames :
        /\ Cardinality(InFlight(n)) <= 1
        /\ fetches[n] <= 1
    /\ \A r1, r2 \in Reqs :
        (PastHeader(r1) /\ PastHeader(r2)
            /\ archive[r1].source = archive[r2].source)
            => HeaderOutcome(r1) = HeaderOutcome(r2)

\* C3 witness: two invocations for one name are past getHeader with the
\* header of the one fetch that was made for the name
C3_Witness ==
    \E r1, r2 \in Reqs :
        /\ r1 # r2
        /\ PastHeader(r1) /\ PastHeader(r2)
        /\ archive[r1].source = archive[r2].source
        /\ header[r1] # NoHeader /\ header[r2] = header[r1]
        /\ fetches[archive[r1].source] = 1

Done(r) == pc[r] = "done"

\* the last read of the invocation was refused for its If-Match
SawMismatch(r) == outcome[r].result = "PreconditionFailed"

Failed(r) == response[r].statusCode >= 400

C5_StaleRetriedOnce ==
    \A r \in Reqs :
        (Done(r) /\ SawMismatch(r) /\ parsed[r].type = "tile")
            => attempt[r] = 2

GotHeader(r) == PastHeader(r) /\ header[r] # NoHeader

TileRequest(r) == GotHeader(r) /\ parsed[r].type = "tile"

ZoomOutside(r) ==
    parsed[r].z < header[r].minZoom \/ parsed[r].z > header[r].maxZoom

\* C6: a tile request whose z is outside the zoom range of the header is
\* answered 404 with an empty body, and makes no getZxy call and no read
\* after the header's.
C6_ZoomOutside404 ==
    \A r \in Reqs :
        (TileRequest(r) /\ ZoomOutside(r))
            => /\ Done(r)
               /\ response[r].statusCode = 404
               /\ response[r].body = Text("")
               /\ zxyCalls[r] = 0
               /\ sends[r] <= 1

\* C6 witness: a request above maxZoom was answered 404 for an extension
\* that is not the archive's
C6_Witness ==
    \E r \in Reqs :
        /\ TileRequest(r) /\ parsed[r].z > header[r].maxZoom
        /\ header[r].tileType = 1 /\ parsed[r].ext = <<"p", "n", "g">>
        /\ response[r].statusCode = 404

Recognized(t) == t \in 1..5

DeclaredExt(t) ==
    CASE t = 1 -> <<"m", "v", "t">> [] t = 2 -> <<"p", "n", "g">>
      [] t = 3 -> <<"j", "p", "g">> [] t = 4 -> <<"w", "e", "b", "p">>
      [] t = 5 -> <<"a", "v", "i", "f">>

Mismatched(r) ==
    /\ Recognized(header[r].tileType)
    /\ parsed[r].ext # DeclaredExt(header[r].tileType)
    /\ ~(header[r].tileType = 1 /\ parsed[r].ext = <<"p", "b", "f">>)

\* C8: a tile request in the zoom range whose extension is not the one of the
\* archive's recognized tile type (nor pbf on a vector archive) is answered
\* 400 with a body naming the requested and the actual extension, and makes
\* no getZxy call.
C8_ExtensionMismatch400 ==
    \A r \in Reqs :
        (TileRequest(r) /\ ~ZoomOutside(r) /\ Mismatched(r))
            => /\ Done(r)
               /\ response[r].statusCode = 400
               /\ response[r].body.kind = "badExtension"
               /\ response[r].body.requested = <<".">> \o parsed[r].ext
               /\ response[r].body.actual
                    = <<".">> \o DeclaredExt(header[r].tileType)
               /\ zxyCalls[r] = 0
               /\ sends[r] <= 1

\* C8 witness: pbf asked of a PNG archive was answered 400
C8_Witness ==
    \E r \in Reqs :
        /\ TileRequest(r) /\ ~ZoomOutside(r)
        /\ header[r].tileType = 2 /\ parsed[r].ext = <<"p", "b", "f">>
        /\ response[r].statusCode = 400

SameTile(r1, r2) ==
    /\ parsed[r1].name = parsed[r2].name
    /\ parsed[r1].z = parsed[r2].z
    /\ parsed[r1].x = parsed[r2].x
    /\ parsed[r1].y = parsed[r2].y

\* what the reader gave the two invocations does not tell them apart
SameReads(r1, r2) ==
    /\ header[r1] = header[r2]
    /\ \/ outcome[r1] = outcome[r2]
       \/ outcome[r1].op = "none"
       \/ outcome[r2].op = "none"

\* C9: on a vector archive a pbf request and an mvt request for the same
\* tile over the same transport, given the same header and the same result
\* of the tile read, get the same response.
C9_PbfAsMvt ==
    \A r1, r2 \in Reqs :
        (/\ TileRequest(r1) /\ TileRequest(r2) /\ Done(r1) /\ Done(r2)
         /\ header[r1].tileType = 1
         /\ parsed[r1].ext = <<"p", "b", "f">>
         /\ parsed[r2].ext = <<"m", "v", "t">>
         /\ SameTile(r1, r2) /\ gateway[r1] = gateway[r2]
         /\ SameReads(r1, r2))
            => response[r1] = response[r2]

\* C9 witness: a pbf request and an mvt request were both answered 200
C9_Witness ==
    \E r1, r2 \in Reqs :
        /\ TileRequest(r1) /\ TileRequest(r2) /\ Done(r1) /\ Done(r2)
        /\ parsed[r1].ext = <<"p", "b", "f">>
        /\ parsed[r2].ext = <<"m", "v", "t">>
        /\ SameTile(r1, r2) /\ gateway[r1] = gateway[r2]
        /\ response[r1].statusCode = 200 /\ response[r2].statusCode = 200

\* C10: a tile request whose getZxy call found no entry for its coordinate
\* is answered 204 with an empty body that is not base64.
C10_AbsentTile204 ==
    \A r \in Reqs :
        (Done(r) /\ outcome[r].op = "getZxy" /\ outcome[r].result = "absent")
            => /\ response[r].statusCode = 204
               /\ response[r].body = Text("")
               /\ ~response[r].isBase64Encoded

\* C10 witness: a coordinate without an entry was asked of a vector archive
\* over API Gateway and answered 204
C10_Witness ==
    \E r \in Reqs :
        /\ Done(r) /\ outcome[r].op = "getZxy" /\ outcome[r].result = "absent"
        /\ zxyCalls[r] = 1 /\ gateway[r] /\ header[r].tileType = 1
        /\ response[r].statusCode = 204

MetadataRequest(r) == Routed(r) /\ parsed[r].type = "tilejson"

\* neither PUBLIC_HOSTNAME nor the x-distribution-domain-name header
NoHost(r) == env.PUBLIC_HOSTNAME = "" /\ ~event[r].hint

MetadataReadFailed(r) ==
    /\ MetadataRequest(r) /\ Done(r) /\ header[r] # NoHeader
    /\ outcome[r].op = "getMetadata" /\ outcome[r].result # "ok"

\* C12: a metadata request with a usable host whose header read succeeded
\* and whose metadata read failed is answered 200 with the zoom range, the
\* bounds, the center and the tile extension of the header, and with the
\* pass-through fields of an empty metadata object.
C12_MetadataFailureTolerated ==
    \A r \in Reqs :
        (MetadataReadFailed(r) /\ ~NoHost(r))
            => /\ response[r].statusCode = 200
               /\ response[r].headers["Content-Type"] = "application/json"
               /\ response[r].body.minzoom = header[r].minZoom
               /\ response[r].body.maxzoom = header[r].maxZoom
               /\ response[r].body.bounds = header[r].bounds
               /\ response[r].body.center = header[r].center
               /\ response[r].body.tiles.name = parsed[r].name
               /\ response[r].body.name = "undefined"
               /\ response[r].body.description = "undefined"
               /\ response[r].body.attribution = "undefined"
               /\ response[r].body.vector_layers = <<>>
               /\ response[r].body.version = 0

\* C12 witness: the metadata read was denied and the request, which carried
\* the host hint, was answered 200
C12_Witness ==
    \E r \in Reqs :
        /\ MetadataReadFailed(r) /\ event[r].hint
        /\ outcome[r].result = "AccessDenied"
        /\ response[r].statusCode = 200

\* the last reader operation of the invocation ended in an error of S3 or of
\* the source
UpstreamFault(r) ==
    Done(r) /\ outcome[r].result \notin {"none", "ok", "absent"}

FaultAnswer(r) ==
    IF outcome[r].result = "AccessDenied"
    THEN /\ response[r].statusCode = 403
         /\ response[r].body = Text("Bucket access unauthorized")
    ELSE /\ response[r].statusCode = 500
         /\ response[r].body = Text("Internal server error")

\* C13 as stated: whichever reader operation raised the fault, AccessDenied
\* is answered 403 and every other fault 500 with the fixed body.
C13_AnyFaultSurfaced ==
    \A r \in Reqs : UpstreamFault(r) => FaultAnswer(r)

\* C13 amended: a fault of getHeader or of getZxy is answered 403 for
\* AccessDenied and 500 with the fixed body otherwise; a fault of getMetadata
\* is never answered 403: the request is answered 200 when it has a host and
\* that 500 when it has none.
C13_FaultSurfaced ==
    \A r \in Reqs :
        UpstreamFault(r) =>
            IF outcome[r].op = "getMetadata"
            THEN IF NoHost(r)
                 THEN /\ response[r].statusCode = 500
                      /\ response[r].body = Text("Internal server error")
                 ELSE response[r].statusCode = 200
            ELSE /\ outcome[r].op \in {"getHeader", "getZxy"}
                 /\ FaultAnswer(r)

\* C13 witness: the header was read, the read of the tile was denied and the
\* request was answered 403
C13_Witness ==
    \E r \in Reqs :
        /\ UpstreamFault(r) /\ outcome[r].op = "getZxy"
        /\ outcome[r].result = "AccessDenied"
        /\ header[r] # NoHeader
        /\ response[r].statusCode = 403

\* the invocation answered a tile request with the tile
TileServed(r) ==
    /\ Done(r) /\ parsed[r].type = "tile" /\ response[r].statusCode = 200

\* the tile bytes a 200 response carries, whatever its transport encoding
DecodedBytes(r) == response[r].body.payload.data

\* C14: the ETag of a 200 tile response is the sha256 of the decoded tile
\* bytes, and two 200 responses for the same tile of the same archive carry
\* the same ETag, whatever their transports, their extensions and the order
\* in which they were served.
C14_SameTileSameETag ==
    /\ \A r \in Reqs :
        TileServed(r)
            => response[r].headers["ETag"] = sha256Hex(DecodedBytes(r))
    /\ \A r1, r2 \in Reqs :
        (TileServed(r1) /\ TileServed(r2) /\ SameTile(r1, r2))
            => response[r1].headers["ETag"] = response[r2].headers["ETag"]

\* C14 witness: the same tile was served gzipped over API Gateway as mvt
\* and, to an invocation that started later, plain over the raw path as pbf
C14_Witness ==
    \E r1, r2 \in Reqs :
        /\ r1 < r2
        /\ TileServed(r1) /\ TileServed(r2) /\ SameTile(r1, r2)
        /\ gateway[r1] /\ ~gateway[r2]
        /\ parsed[r1].ext = <<"m", "v", "t">>
        /\ parsed[r2].ext = <<"p", "b", "f">>
        /\ response[r1].headers["ETag"] = response[r2].headers["ETag"]

\* the event came through API Gateway's proxy integration
ViaProxy(r) == event[r].proxy # <<>>

Gzipped(r) ==
    /\ "Content-Encoding" \in DOMAIN response[r].headers
    /\ response[r].headers["Content-Encoding"] = "gzip"
    /\ response[r].body.payload.gzip

Uncompressed(r) ==
    /\ "Content-Encoding" \notin DOMAIN response[r].headers
    /\ ~response[r].body.payload.gzip

\* C15: a 200 tile response to an event with pathParameters.proxy carries
\* Content-Encoding: gzip and a gzipped body; a 200 tile response to an
\* event with rawPath carries neither, also when the event has an
\* Accept-Encoding: gzip header.
C15_GzipIffGateway ==
    \A r \in Reqs :
        TileServed(r) => IF ViaProxy(r) THEN Gzipped(r) ELSE Uncompressed(r)

\* C15 witness: a raw-path request of a client accepting gzip was served
\* the tile uncompressed
C15_Witness ==
    \E r \in Reqs :
        /\ TileServed(r) /\ ~ViaProxy(r) /\ event[r].accept = "gzip"
        /\ Uncompressed(r)

\* the number a digit string writes, exactly: an integer of the model up to
\* nine digits, the digits themselves beyond
ExactValue(ds) ==
    LET c == StripZeros(ds)
    IN  IF Len(c) <= 9 THEN DecimalValue(c) ELSE [double |-> c]

\* the number a digit string writes is at most 2^53
UpToTwoTo53(ds) == ~DigitsLess(TwoTo53, StripZeros(ds))

Parsed(r) == pc[r] = "parsed"

\* C16 as stated: of every path built from a name, three numbers and an
\* extension, parsePath returns the tile intent with exactly that name,
\* those numbers and that extension.
C16_ParseRecoversAll ==
    \A r \in Reqs :
        \A n \in ParseNames, z \in ZInputs, x \in XInputs, y \in YInputs,
           e \in ParseExts :
            (Parsed(r) /\ PathOf(r) = TilePath(n, z, x, y, e))
                => parsed[r] = [type |-> "tile", name |-> n,
                                z |-> ExactValue(z), x |-> ExactValue(x),
                                y |-> ExactValue(y), ext |-> e]

\* C16 amended: parsePath returns a tile intent with exactly that name and
\* that extension, and with exactly each of the numbers that is at most 2^53.
C16_ParseRecovers ==
    \A r \in Reqs :
        \A n \in ParseNames, z \in ZInputs, x \in XInputs, y \in YInputs,
           e \in ParseExts :
            (Parsed(r) /\ PathOf(r) = TilePath(n, z, x, y, e))
                => /\ parsed[r].type = "tile"
                   /\ parsed[r].name = n
                   /\ parsed[r].ext = e
                   /\ UpToTwoTo53(z) => parsed[r].z = ExactValue(z)
                   /\ UpToTwoTo53(x) => parsed[r].x = ExactValue(x)
                   /\ UpToTwoTo53(y) => parsed[r].y = ExactValue(y)

\* C16 witness: a path whose name ends in segments of digits, with z = 2^53
\* and the extension json, was parsed into its components
C16_Witness ==
    \E r \in Reqs :
        /\ Parsed(r)
        /\ PathOf(r) = TilePath(<<"t", ".", "2", "/", "3", "/", "4">>,
                                TwoTo53, <<"3">>, <<"5">>,
                                <<"j", "s", "o", "n">>)
        /\ parsed[r] = [type |-> "tile",
                        name |-> <<"t", ".", "2", "/", "3", "/", "4">>,
                        z |-> [double |-> TwoTo53], x |-> 3, y |-> 5,
                        ext |-> <<"j", "s", "o", "n">>]

\* the archive names resolved so far
ResolvedNames == {archive[r].source : r \in {q \in Reqs : Resolved(q)}}

\* C17: one reader has been constructed for each archive name resolved so
\* far, and an invocation that resolves a name after another one holds the
\* reader the earlier one was given.
C17_BindingPersists ==
    /\ readers = Cardinality(ResolvedNames)
    /\ \A r1, r2 \in Reqs :
        (r1 < r2 /\ Resolved(r1) /\ Resolved(r2)
            /\ archive[r2].source = archive[r1].source)
            => archive[r2].id = archive[r1].id

\* a metadata request with a host that got the header of an archive of a
\* tile type outside 1..5 and has answered
MetadataOfUnknownType(r) ==
    /\ MetadataRequest(r) /\ Done(r) /\ ~NoHost(r)
    /\ header[r] # NoHeader /\ ~Recognized(header[r].tileType)

\* a tile request that got the header of such an archive and has answered
TileOfUnknownType(r) ==
    TileRequest(r) /\ Done(r) /\ ~Recognized(header[r].tileType)

TilePathRouted(r) == Routed(r) /\ parsed[r].type = "tile"

\* C19: a tile request calls getZxy at most once and sends at most the
\* header read and one tile read; it has called getZxy only if the header
\* promise of its archive is resolved, it holds that header, its z is in the
\* zoom range and its extension is accepted; while it awaits the header, and
\* when the header read has failed, it has called no getZxy and has sent
\* nothing after the header read.
C19_ReadsOrdered ==
    \A r \in Reqs :
        TilePathRouted(r) =>
            /\ zxyCalls[r] <= 1
            /\ sends[r] <= 2
            /\ zxyCalls[r] = 1
                => /\ EntryOf(archive[r]).st = "ok"
                   /\ header[r] = EntryOf(archive[r]).header
                   /\ ~ZoomOutside(r)
                   /\ ~Mismatched(r)
            /\ sends[r] = 2 => zxyCalls[r] = 1
            /\ pc[r] = "header" => zxyCalls[r] = 0 /\ sends[r] <= 1
            /\ (Done(r) /\ header[r] = NoHeader)
                => zxyCalls[r] = 0 /\ sends[r] <= 1

\* C19 witness: a tile request read the header, passed both checks, read
\* the tile and answered
C19_Witness ==
    \E r \in Reqs :
        /\ TilePathRouted(r) /\ Done(r)
        /\ header[r] # NoHeader /\ zxyCalls[r] = 1 /\ sends[r] = 2
        /\ outcome[r].op = "getZxy" /\ outcome[r].result = "ok"

StatusCodes == {200, 204, 400, 403, 404, 500}

\* what an invocation has returned is a well-formed response
Answered(r) ==
    /\ response[r].statusCode \in StatusCodes
    /\ response[r].isBase64Encoded
        => response[r].statusCode = 200 /\ parsed[r].type = "tile"
    /\ (response[r].statusCode = 200 /\ parsed[r].type = "tile")
        => response[r].isBase64Encoded

\* C20: every invocation that has started ends, under every interleaving
\* and every end of its reads; before its end it has returned nothing; at
\* its end it has returned one response with a status of 200, 204, 400, 403,
\* 404 or 500, base64 exactly when it is a 200 tile response; and what it
\* has returned never changes afterwards.
C20_AlwaysOneResponse ==
    /\ [](\A r \in Reqs :
            IF Done(r) THEN Answered(r) ELSE response[r] = NoResponse)
    /\ [][\A r \in Reqs :
            Done(r) => (Done(r)' /\ response'[r] = response[r])]_vars
    /\ \A r \in Reqs : (pc[r] # "idle") ~> Done(r)

\* C20 witness: of two invocations that ran together, one was served its
\* tile and the other, whose read of the same tile timed out, was answered
\* 500
C20_Witness ==
    \E r1, r2 \in Reqs :
        /\ Done(r1) /\ Done(r2)
        /\ parsed[r1].type = "tile" /\ parsed[r2].type = "tile"
        /\ SameTile(r1, r2)
        /\ response[r1].statusCode = 200 /\ response[r1].isBase64Encoded
        /\ outcome[r2].result = "TimeoutError"
        /\ response[r2].statusCode = 500 /\ ~response[r2].isBase64Encoded

====
